---- MODULE Spec2Model ----
(***************************************************************************)
(* HmIPPlatform (src/src/HmIPPlatform.ts): the HomematicIP platform of     *)
(* homebridge.  Cached accessories are restored (configureAccessory),      *)
(* didFinishLaunching starts discoverDevices, which initialises the        *)
(* session, fetches the snapshot, binds every snapshot device              *)
(* (updateAccessory) and subscribes to the push feed (connectWs); every    *)
(* feed message is parsed and its events are handled one after another.    *)
(***************************************************************************)
EXTENDS Naturals, Sequences, FiniteSets, TLC

VARIABLES
    pc,              \* position of the platform: restoring / discoverDevices' awaits
    initResult,      \* what connector.init() resolved to
    accessories,     \* this.accessories: references of the restored accessories
    heap,            \* the PlatformAccessory objects, by reference (index)
    groups,          \* this.groups
    home,            \* this.home
    deviceMap,       \* this.deviceMap, in insertion order
    hmIPState,       \* the snapshot object held by discoverDevices' closure
    registerCalls,   \* the HmIPAccessory objects register() was called on
    unregisterCalls, \* the accessories passed to api.unregisterPlatformAccessories
    wsOpen,          \* the connector's feed subscription is open
    shutdown,        \* the shutdown callback has run
    data,            \* the raw message the feed callback is handling
    queue,           \* the events of that message still to be handled
    dispatched,      \* the updateDevice calls made while handling that message
    lastGroupEvent,  \* history: per group id, the latest group event applied
    resolved,        \* history: the createAccessory calls made on their own
    lastHome,        \* history: the home setHome was last called with, as it left it
    setHomeCalls     \* history: the setHome calls made on their own

vars == <<pc, initResult, accessories, heap, groups, home, deviceMap, hmIPState,
          registerCalls, unregisterCalls, wsOpen, shutdown,
          data, queue, dispatched, lastGroupEvent, resolved, lastHome, setHomeCalls>>

(***************************************************************************)
(* Bounds and input sets                                                   *)
(***************************************************************************)
\* events in one message of the hub's feed
MaxEvents == 1
\* key/event pairs in the text of one message with arbitrary event keys
MaxMembers == 2

DeviceIds == {"d1", "d2"}
GroupIds == {"g1", "g2"}

\* a JavaScript undefined where an object is expected
Undefined == [undefined |-> TRUE]
\* an absent string field of a hub payload
Absent == "<absent>"
\* no message is being handled
NoMessage == <<>>

\* the device types updateAccessory knows, and one it does not
DeviceTypes == {"WALL_MOUNTED_THERMOSTAT_PRO", "FULL_FLUSH_SHUTTER",
                "HOME_CONTROL_ACCESS_POINT", "PLUGABLE_SWITCH"}

Device(id, type) == [id |-> id, type |-> type, label |-> "label-" \o id]

\* a home as the hub sends it: no oem, modelType or firmwareVersion yet
HubHome(version) ==
    [id |-> "home", currentAPVersion |-> version,
     oem |-> Absent, modelType |-> Absent, firmwareVersion |-> Absent]

Group(id, label) == [id |-> id, label |-> label]

\* JavaScript truthiness of an optional object
Truthy(v) == v # Undefined

(***************************************************************************)
(* JavaScript objects with string keys: a sequence of <<key, value>> pairs *)
(* in property enumeration order.                                          *)
(***************************************************************************)
Keys(obj) == [i \in 1..Len(obj) |-> obj[i][1]]
Values(obj) == [i \in 1..Len(obj) |-> obj[i][2]]
Has(obj, k) == \E i \in 1..Len(obj) : obj[i][1] = k
Get(obj, k) ==
    IF Has(obj, k) THEN obj[CHOOSE i \in 1..Len(obj) : obj[i][1] = k][2]
    ELSE Undefined

\* the keys JavaScript treats as array indices, and their numeric value
IsIndex(k) == k \in {"0", "1", "2"}
IndexValue(k) == CASE k = "0" -> 0 [] k = "1" -> 1 [] k = "2" -> 2

\* obj[k] = v: an existing property keeps its place; a new array-index key is
\* placed among the index keys in ascending order, ahead of every other key;
\* any other new key goes last
Put(obj, k, v) ==
    IF Has(obj, k)
    THEN [i \in 1..Len(obj) |-> IF obj[i][1] = k THEN <<k, v>> ELSE obj[i]]
    ELSE IF IsIndex(k)
    THEN LET before == SelectSeq(obj, LAMBDA e :
                           IsIndex(e[1]) /\ IndexValue(e[1]) < IndexValue(k))
             after == SelectSeq(obj, LAMBDA e :
                           ~(IsIndex(e[1]) /\ IndexValue(e[1]) < IndexValue(k)))
         IN before \o <<<<k, v>>>> \o after
    ELSE Append(obj, <<k, v>>)

\* delete obj[k]
Delete(obj, k) == SelectSeq(obj, LAMBDA e : e[1] # k)

\* Map.prototype.set / delete: insertion order, whatever the key
MapSet(m, k, v) ==
    IF Has(m, k)
    THEN [i \in 1..Len(m) |-> IF m[i][1] = k THEN <<k, v>> ELSE m[i]]
    ELSE Append(m, <<k, v>>)
MapDelete(m, k) == SelectSeq(m, LAMBDA e : e[1] # k)

\* JSON.parse of an object's members, in the order of the text
RECURSIVE ParseMembers(_)
ParseMembers(text) ==
    IF text = <<>> THEN <<>>
    ELSE LET n == Len(text)
         IN Put(ParseMembers(SubSeq(text, 1, n - 1)), text[n][1], text[n][2])

\* JSON.parse(data.toString()) of a feed message {events: {...}}
JSONparse(text) == [events |-> ParseMembers(text)]

(***************************************************************************)
(* The platform's helpers                                                  *)
(***************************************************************************)
\* api.hap.uuid.generate: a name-based UUID, one per identity
UuidGenerate(id) == "uuid-" \o id

\* getAccessory: the first restored accessory with this UUID, 0 for undefined
getAccessory(accs, hp, uuid) ==
    IF \E i \in 1..Len(accs) : hp[accs[i]].UUID = uuid
    THEN accs[CHOOSE i \in 1..Len(accs) :
                 /\ hp[accs[i]].UUID = uuid
                 /\ \A j \in 1..(i - 1) : hp[accs[j]].UUID # uuid]
    ELSE 0

\* createAccessory telling HmIPAccessory that no accessory was restored
createAccessory_NotFromCache(accs, hp, uuid, displayName, deviceContext) ==
    LET existingAccessory == getAccessory(accs, hp, uuid)
        accessory == IF existingAccessory # 0 THEN existingAccessory
                     ELSE Len(hp) + 1
        allocated == IF existingAccessory # 0 THEN hp
                     ELSE Append(hp, [UUID |-> uuid, displayName |-> displayName,
                                      context |-> Undefined])
    IN [heap |-> [allocated EXCEPT ![accessory].context = deviceContext],
        hmIPAccessory |-> [accessory |-> accessory, isFromCache |-> FALSE]]

\* createAccessory constructing a new accessory whether or not one was restored
createAccessory_AlwaysNew(accs, hp, uuid, displayName, deviceContext) ==
    [heap |-> Append(hp, [UUID |-> uuid, displayName |-> displayName,
                          context |-> deviceContext]),
     hmIPAccessory |-> [accessory |-> Len(hp) + 1,
                        isFromCache |-> getAccessory(accs, hp, uuid) # 0]]

\* createAccessory: reuse the restored accessory or construct a new one, store
\* the device context on it, wrap it in an HmIPAccessory
createAccessory(accs, hp, uuid, displayName, deviceContext) ==
    LET existingAccessory == getAccessory(accs, hp, uuid)
        accessory == IF existingAccessory # 0 THEN existingAccessory
                     ELSE Len(hp) + 1
        allocated == IF existingAccessory # 0 THEN hp
                     ELSE Append(hp, [UUID |-> uuid, displayName |-> displayName,
                                      context |-> Undefined])
    IN [heap |-> [allocated EXCEPT ![accessory].context = deviceContext],
        hmIPAccessory |-> [accessory |-> accessory,
                           isFromCache |-> existingAccessory # 0]]

\* HmIPAccessory.register() over the calls made: an accessory restored from the
\* cache is registered already and is not registered again; the others are
\* the ones passed to external registration, in order
registerNew(calls) ==
    SelectSeq(calls, LAMBDA hmIPAccessory : ~hmIPAccessory.isFromCache)

\* HmIPConnector.connectWs(listener) / disconnectWs() on the subscription:
\* subscribing opens it, unsubscribing closes it if it is open
connectWs(open) == TRUE
disconnectWs(open) == FALSE

\* setHome taking the firmware version from the wrong field
setHome_WrongField(h) ==
    [h EXCEPT !.oem = "eQ-3", !.modelType = "HmIPHome",
              !.firmwareVersion = h.oem]

\* setHome: normalises the home object in place; this.home is not assigned
\* and updateHomeAccessories does nothing
setHome(h) ==
    [h EXCEPT !.oem = "eQ-3", !.modelType = "HmIPHome",
              !.firmwareVersion = h.currentAPVersion]

\* the class updateAccessory instantiates for a device type, Absent for none
DeviceClass(type) ==
    IF type = "WALL_MOUNTED_THERMOSTAT_PRO" THEN "HmIPThermostat"
    ELSE IF type = "FULL_FLUSH_SHUTTER" THEN "HmIPShutter"
    ELSE IF type = "HOME_CONTROL_ACCESS_POINT" THEN "HmIPHomeControlAccessPoint"
    ELSE Absent

\* new HmIPThermostat / HmIPShutter / HmIPHomeControlAccessPoint(this, home, accessory)
NewDevice(class, h, accessory) == [class |-> class, home |-> h, accessory |-> accessory]

\* updateAccessory deriving every accessory's UUID from one fixed name
updateAccessory_FixedUuid(accs, p, id, h, device) ==
    LET uuid == UuidGenerate("device")
        created == createAccessory(accs, p.heap, uuid, device.label, device)
        hmIPAccessory == created.hmIPAccessory
    IN IF DeviceClass(device.type) = Absent
       THEN [p EXCEPT !.heap = created.heap]
       ELSE [heap |-> created.heap,
             deviceMap |-> MapSet(p.deviceMap, id,
                                  NewDevice(DeviceClass(device.type), h,
                                            hmIPAccessory.accessory)),
             registerCalls |-> Append(p.registerCalls, hmIPAccessory)]

\* updateAccessory on the platform state p = [heap, deviceMap, registerCalls]
updateAccessory(accs, p, id, h, device) ==
    LET uuid == UuidGenerate(id)
        created == createAccessory(accs, p.heap, uuid, device.label, device)
        hmIPAccessory == created.hmIPAccessory
    IN IF DeviceClass(device.type) = Absent
       THEN [p EXCEPT !.heap = created.heap]
       ELSE [heap |-> created.heap,
             deviceMap |-> MapSet(p.deviceMap, id,
                                  NewDevice(DeviceClass(device.type), h,
                                            hmIPAccessory.accessory)),
             registerCalls |-> Append(p.registerCalls, hmIPAccessory)]

\* the loop over the snapshot's devices leaving at the first unsupported device
RECURSIVE updateAccessories_StopsAtUnsupported(_, _, _, _)
updateAccessories_StopsAtUnsupported(accs, p, h, devices) ==
    IF devices = <<>> THEN p
    ELSE IF DeviceClass(devices[1][2].type) = Absent
    THEN updateAccessory(accs, p, devices[1][1], h, devices[1][2])
    ELSE updateAccessories_StopsAtUnsupported(accs,
             updateAccessory(accs, p, devices[1][1], h, devices[1][2]),
             h, Tail(devices))

\* the loop over the snapshot's devices, in property enumeration order
RECURSIVE updateAccessories(_, _, _, _)
updateAccessories(accs, p, h, devices) ==
    IF devices = <<>> THEN p
    ELSE updateAccessories(accs,
                           updateAccessory(accs, p, devices[1][1], h, devices[1][2]),
                           h, Tail(devices))

(***************************************************************************)
(* Inputs: what homebridge, the hub and the feed may hand to the platform  *)
(***************************************************************************)
SeqsUpTo(S, n) == UNION {[1..k -> S] : k \in 0..n}

\* the UUIDs of the accessories homebridge may restore from its cache
RestoredUUIDs == {UuidGenerate("d1"), "uuid-stale"}
RestoredAccessory(uuid) ==
    [UUID |-> uuid, displayName |-> "restored", context |-> [restored |-> TRUE]]

\* the snapshots home/getCurrentState may return
SnapshotDevices ==
    {first \o second :
        first \in {<<<<"d1", Device("d1", t)>>>> :
                      t \in {"FULL_FLUSH_SHUTTER", "WALL_MOUNTED_THERMOSTAT_PRO",
                             "PLUGABLE_SWITCH"}},
        second \in {<<>>, <<<<"d2", Device("d2", "HOME_CONTROL_ACCESS_POINT")>>>>}}
SnapshotGroups == {<<<<"g1", Group("g1", "p0")>>, <<"g2", Group("g2", "q0")>>>>}
Snapshots ==
    [home : {HubHome("1.0")}, groups : SnapshotGroups, devices : SnapshotDevices]

\* the events of the feed
Event(type, group, device, h) ==
    [pushEventType |-> type, group |-> group, device |-> device, home |-> h]
GroupEvents ==
    {Event("GROUP_ADDED", Group("g1", "p1"), Undefined, Undefined),
     Event("GROUP_CHANGED", Group("g1", "p2"), Undefined, Undefined),
     Event("GROUP_REMOVED", Group("g1", "p1"), Undefined, Undefined)}
DeviceEvents ==
    {Event("DEVICE_REMOVED", Undefined, Device("d1", "FULL_FLUSH_SHUTTER"), Undefined),
     Event("DEVICE_CHANGED", Undefined, Device("d1", "FULL_FLUSH_SHUTTER"), Undefined),
     Event("DEVICE_ADDED", Undefined, Device("d2", "HOME_CONTROL_ACCESS_POINT"), Undefined)}
HomeEvents ==
    {Event("HOME_CHANGED", Undefined, Undefined, HubHome("2.0"))}
\* an event of a kind the loop does not handle, and events without payload
OtherEvents ==
    {Event("SECURITY_JOURNAL_CHANGED", Undefined, Undefined, Undefined),
     Event("GROUP_REMOVED", Undefined, Undefined, Undefined),
     Event("DEVICE_REMOVED", Undefined, Undefined, Undefined)}
Events == GroupEvents \cup DeviceEvents \cup HomeEvents \cup OtherEvents

\* the hub numbers the events of a message "0", "1", ...
IndexKey(i) == CASE i = 0 -> "0" [] i = 1 -> "1" [] i = 2 -> "2"
HubMessages ==
    {[i \in 1..Len(evs) |-> <<IndexKey(i - 1), evs[i]>>] :
        evs \in SeqsUpTo(Events, MaxEvents)}

(***************************************************************************)
(* Construction                                                            *)
(***************************************************************************)
Init ==
    /\ pc = "restoring"
    /\ initResult = "pending"
    /\ accessories = <<>>
    /\ heap = <<>>
    /\ groups = Undefined
    /\ home = Undefined
    /\ deviceMap = <<>>
    /\ hmIPState = Undefined
    /\ registerCalls = <<>>
    /\ unregisterCalls = <<>>
    /\ wsOpen = FALSE
    /\ shutdown = FALSE
    /\ data = NoMessage
    /\ queue = <<>>
    /\ dispatched = <<>>
    /\ lastGroupEvent = [g \in GroupIds |-> Undefined]
    /\ resolved = <<>>
    /\ lastHome = Undefined
    /\ setHomeCalls = <<>>

(***************************************************************************)
(* homebridge's callbacks                                                  *)
(***************************************************************************)
\* configureAccessory pushing the accessory without looking its UUID up
configureAccessory_AlwaysPushes(accessory) ==
    /\ pc = "restoring"
    /\ heap' = Append(heap, accessory)
    /\ accessories' = Append(accessories, Len(heap) + 1)
    /\ UNCHANGED <<pc, groups, home, deviceMap, hmIPState, registerCalls,
                   unregisterCalls, wsOpen, shutdown, data, queue, dispatched,
                   lastGroupEvent,
                   initResult, resolved, lastHome, setHomeCalls>>

\* configureAccessory(accessory): homebridge restores a cached accessory
configureAccessory(accessory) ==
    /\ pc = "restoring"
    /\ IF getAccessory(accessories, heap, accessory.UUID) = 0
       THEN /\ heap' = Append(heap, accessory)
            /\ accessories' = Append(accessories, Len(heap) + 1)
       ELSE UNCHANGED <<heap, accessories>>
    /\ UNCHANGED <<pc, groups, home, deviceMap, hmIPState, registerCalls,
                   unregisterCalls, wsOpen, shutdown, data, queue, dispatched,
                   lastGroupEvent,
                   initResult, resolved, lastHome, setHomeCalls>>

\* 'didFinishLaunching': discoverDevices starts and awaits connector.init()
didFinishLaunching ==
    /\ pc = "restoring"
    /\ pc' = "init"
    /\ UNCHANGED <<accessories, heap, groups, home, deviceMap, hmIPState,
                   registerCalls, unregisterCalls, wsOpen, shutdown, data, queue,
                   dispatched, lastGroupEvent,
                   initResult, resolved, lastHome, setHomeCalls>>

\* discoverDevices subscribing to the feed before it awaits the snapshot
initResolved_SubscribesEarly(ok) ==
    /\ pc = "init"
    /\ initResult' = IF ok THEN "ok" ELSE "failed"
    /\ pc' = IF ok THEN "getCurrentState" ELSE "aborted"
    /\ wsOpen' = IF ok THEN connectWs(wsOpen) ELSE wsOpen
    /\ UNCHANGED <<accessories, heap, groups, home, deviceMap, hmIPState,
                   registerCalls, unregisterCalls, shutdown, data, queue,
                   dispatched, lastGroupEvent, resolved, lastHome, setHomeCalls>>

\* connector.init() resolving without the early return on failure
initResolved_NoReturn(ok) ==
    /\ pc = "init"
    /\ initResult' = IF ok THEN "ok" ELSE "failed"
    /\ pc' = "getCurrentState"
    /\ UNCHANGED <<accessories, heap, groups, home, deviceMap, hmIPState,
                   registerCalls, unregisterCalls, wsOpen, shutdown, data, queue,
                   dispatched, lastGroupEvent, resolved, lastHome, setHomeCalls>>

\* connector.init() resolves: on failure discoverDevices returns, otherwise it
\* awaits the snapshot
initResolved(ok) ==
    /\ pc = "init"
    /\ initResult' = IF ok THEN "ok" ELSE "failed"
    /\ pc' = IF ok THEN "getCurrentState" ELSE "aborted"
    /\ UNCHANGED <<accessories, heap, groups, home, deviceMap, hmIPState,
                   registerCalls, unregisterCalls, wsOpen, shutdown, data, queue,
                   dispatched, lastGroupEvent, resolved, lastHome, setHomeCalls>>

\* the snapshot arrives: groups and home are taken, every device goes through
\* updateAccessory, and connectWs registers the feed callback; nothing follows
\* the await of connectWs
discoverDevices(snapshot) ==
    /\ pc = "getCurrentState"
    /\ LET normalised == [snapshot EXCEPT !.home = setHome(snapshot.home)]
           p == updateAccessories(accessories,
                    [heap |-> heap, deviceMap |-> deviceMap,
                     registerCalls |-> registerCalls],
                    home, normalised.devices)
       IN /\ hmIPState' = normalised
          /\ groups' = normalised.groups
          /\ heap' = p.heap
          /\ deviceMap' = p.deviceMap
          /\ registerCalls' = p.registerCalls
          /\ lastHome' = normalised.home
    /\ wsOpen' = connectWs(wsOpen)
    /\ pc' = "subscribed"
    /\ UNCHANGED <<accessories, home, unregisterCalls, shutdown, data, queue,
                   dispatched, lastGroupEvent,
                   initResult, resolved, setHomeCalls>>

\* 'shutdown': connector.disconnectWs() closes the subscription if one is open
onShutdown ==
    /\ pc # "restoring"
    /\ ~shutdown
    /\ data = NoMessage
    /\ shutdown' = TRUE
    /\ wsOpen' = disconnectWs(wsOpen)
    /\ UNCHANGED <<pc, accessories, heap, groups, home, deviceMap, hmIPState,
                   registerCalls, unregisterCalls, data, queue, dispatched,
                   lastGroupEvent,
                   initResult, resolved, lastHome, setHomeCalls>>

(***************************************************************************)
(* The feed callback registered by connectWs                               *)
(***************************************************************************)
\* the loop leaving after its first event
eventsOf_FirstOnly(text) ==
    LET all == Values(JSONparse(text).events)
    IN IF all = <<>> THEN <<>> ELSE <<all[1]>>

\* for (const id in stateChange.events): the events in enumeration order
eventsOf(text) == Values(JSONparse(text).events)

\* a message arrives: it is parsed and the loop over its events starts
onMessage(messages) ==
    /\ wsOpen
    /\ data = NoMessage
    /\ \E text \in messages :
          /\ data' = <<text>>
          /\ queue' = eventsOf(text)
    /\ dispatched' = <<>>
    /\ UNCHANGED <<pc, accessories, heap, groups, home, deviceMap, hmIPState,
                   registerCalls, unregisterCalls, wsOpen, shutdown,
                   lastGroupEvent,
                   initResult, resolved, lastHome, setHomeCalls>>

\* the event the loop is at
event == Head(queue)
AtEvent(types) ==
    /\ data # NoMessage
    /\ queue # <<>>
    /\ event.pushEventType \in types

\* GROUP_CHANGED / GROUP_ADDED storing a group only when the id is new
onGroupChanged_KeepsFirst ==
    /\ AtEvent({"GROUP_CHANGED", "GROUP_ADDED"})
    /\ queue' = Tail(queue)
    /\ IF Truthy(event.group)
       THEN /\ hmIPState' =
                  IF Has(groups, event.group.id) THEN hmIPState
                  ELSE [hmIPState EXCEPT
                           !.groups = Put(@, event.group.id, event.group)]
            /\ groups' = IF Has(groups, event.group.id) THEN groups
                         ELSE Put(groups, event.group.id, event.group)
            /\ lastGroupEvent' = [lastGroupEvent EXCEPT ![event.group.id] = event]
       ELSE UNCHANGED <<hmIPState, groups, lastGroupEvent>>
    /\ UNCHANGED <<pc, accessories, heap, home, deviceMap, registerCalls,
                   unregisterCalls, wsOpen, shutdown, data, dispatched,
                   initResult, resolved, lastHome, setHomeCalls>>

\* case 'GROUP_CHANGED', 'GROUP_ADDED'
onGroupChanged ==
    /\ AtEvent({"GROUP_CHANGED", "GROUP_ADDED"})
    /\ queue' = Tail(queue)
    /\ IF Truthy(event.group)
       THEN /\ hmIPState' = [hmIPState EXCEPT
                                !.groups = Put(@, event.group.id, event.group)]
            /\ groups' = Put(groups, event.group.id, event.group)
            /\ lastGroupEvent' = [lastGroupEvent EXCEPT ![event.group.id] = event]
       ELSE UNCHANGED <<hmIPState, groups, lastGroupEvent>>
    /\ UNCHANGED <<pc, accessories, heap, home, deviceMap, registerCalls,
                   unregisterCalls, wsOpen, shutdown, data, dispatched,
                   initResult, resolved, lastHome, setHomeCalls>>

\* case 'GROUP_REMOVED'
onGroupRemoved ==
    /\ AtEvent({"GROUP_REMOVED"})
    /\ queue' = Tail(queue)
    /\ IF Truthy(event.group)
       THEN /\ hmIPState' = [hmIPState EXCEPT !.groups = Delete(@, event.group.id)]
            /\ groups' = Delete(groups, event.group.id)
            /\ lastGroupEvent' = [lastGroupEvent EXCEPT ![event.group.id] = event]
       ELSE UNCHANGED <<hmIPState, groups, lastGroupEvent>>
    /\ UNCHANGED <<pc, accessories, heap, home, deviceMap, registerCalls,
                   unregisterCalls, wsOpen, shutdown, data, dispatched,
                   initResult, resolved, lastHome, setHomeCalls>>

\* DEVICE_REMOVED without the deviceMap.delete
onDeviceRemoved_KeepsBinding ==
    /\ AtEvent({"DEVICE_REMOVED"})
    /\ queue' = Tail(queue)
    /\ IF Truthy(event.device) /\ Truthy(Get(deviceMap, event.device.id))
       THEN LET hmIPDevice == Get(deviceMap, event.device.id)
            IN /\ unregisterCalls' = Append(unregisterCalls, hmIPDevice.accessory)
               /\ hmIPState' = [hmIPState EXCEPT
                                   !.devices = Delete(@, event.device.id)]
       ELSE UNCHANGED <<unregisterCalls, hmIPState>>
    /\ UNCHANGED <<pc, accessories, heap, groups, home, deviceMap, registerCalls,
                   wsOpen, shutdown, data, dispatched, lastGroupEvent,
                   initResult, resolved, lastHome, setHomeCalls>>

\* DEVICE_REMOVED without the delete of hmIPState.devices[id]
onDeviceRemoved_KeepsTopology ==
    /\ AtEvent({"DEVICE_REMOVED"})
    /\ queue' = Tail(queue)
    /\ IF Truthy(event.device) /\ Truthy(Get(deviceMap, event.device.id))
       THEN LET hmIPDevice == Get(deviceMap, event.device.id)
            IN /\ unregisterCalls' = Append(unregisterCalls, hmIPDevice.accessory)
               /\ deviceMap' = MapDelete(deviceMap, event.device.id)
       ELSE UNCHANGED <<unregisterCalls, deviceMap>>
    /\ UNCHANGED <<pc, accessories, heap, groups, home, hmIPState, registerCalls,
                   wsOpen, shutdown, data, dispatched, lastGroupEvent,
                   initResult, resolved, lastHome, setHomeCalls>>

\* DEVICE_REMOVED deleting from both stores before looking the device up
onDeviceRemoved_DeletesUnknown ==
    /\ AtEvent({"DEVICE_REMOVED"})
    /\ queue' = Tail(queue)
    /\ IF Truthy(event.device)
       THEN /\ unregisterCalls' =
                  IF Truthy(Get(deviceMap, event.device.id))
                  THEN Append(unregisterCalls,
                              Get(deviceMap, event.device.id).accessory)
                  ELSE unregisterCalls
            /\ hmIPState' = [hmIPState EXCEPT
                                !.devices = Delete(@, event.device.id)]
            /\ deviceMap' = MapDelete(deviceMap, event.device.id)
       ELSE UNCHANGED <<unregisterCalls, hmIPState, deviceMap>>
    /\ UNCHANGED <<pc, accessories, heap, groups, home, registerCalls, wsOpen,
                   shutdown, data, dispatched, lastGroupEvent,
                   initResult, resolved, lastHome, setHomeCalls>>

\* case 'DEVICE_REMOVED'
onDeviceRemoved ==
    /\ AtEvent({"DEVICE_REMOVED"})
    /\ queue' = Tail(queue)
    /\ IF Truthy(event.device) /\ Truthy(Get(deviceMap, event.device.id))
       THEN LET hmIPDevice == Get(deviceMap, event.device.id)
            IN /\ unregisterCalls' = Append(unregisterCalls, hmIPDevice.accessory)
               /\ hmIPState' = [hmIPState EXCEPT
                                   !.devices = Delete(@, event.device.id)]
               /\ deviceMap' = MapDelete(deviceMap, event.device.id)
       ELSE UNCHANGED <<unregisterCalls, hmIPState, deviceMap>>
    /\ UNCHANGED <<pc, accessories, heap, groups, home, registerCalls, wsOpen,
                   shutdown, data, dispatched, lastGroupEvent,
                   initResult, resolved, lastHome, setHomeCalls>>

\* an updateDevice call on the device bound to id, with its arguments in order
Dispatch(id, args) == [target |-> id, args |-> args]

\* DEVICE_CHANGED / DEVICE_ADDED binding a device it does not know
onDeviceChanged_Binds ==
    /\ AtEvent({"DEVICE_CHANGED", "DEVICE_ADDED"})
    /\ queue' = Tail(queue)
    /\ IF Truthy(event.device) /\ Has(deviceMap, event.device.id)
       THEN /\ dispatched' = Append(dispatched,
                   Dispatch(event.device.id, <<home, event.device, groups>>))
            /\ UNCHANGED <<heap, deviceMap, registerCalls>>
       ELSE IF Truthy(event.device)
       THEN LET p == updateAccessory(accessories,
                         [heap |-> heap, deviceMap |-> deviceMap,
                          registerCalls |-> registerCalls],
                         event.device.id, home, event.device)
            IN /\ heap' = p.heap
               /\ deviceMap' = p.deviceMap
               /\ registerCalls' = p.registerCalls
               /\ UNCHANGED dispatched
       ELSE UNCHANGED <<heap, deviceMap, registerCalls, dispatched>>
    /\ UNCHANGED <<pc, accessories, groups, home, hmIPState, unregisterCalls,
                   wsOpen, shutdown, data, lastGroupEvent, initResult,
                   resolved, lastHome, setHomeCalls>>

\* case 'DEVICE_CHANGED', 'DEVICE_ADDED'
onDeviceChanged ==
    /\ AtEvent({"DEVICE_CHANGED", "DEVICE_ADDED"})
    /\ queue' = Tail(queue)
    /\ IF Truthy(event.device) /\ Has(deviceMap, event.device.id)
       THEN dispatched' = Append(dispatched,
                Dispatch(event.device.id, <<home, event.device, groups>>))
       ELSE UNCHANGED dispatched
    /\ UNCHANGED <<pc, accessories, heap, groups, home, deviceMap, hmIPState,
                   registerCalls, unregisterCalls, wsOpen, shutdown, data,
                   lastGroupEvent,
                   initResult, resolved, lastHome, setHomeCalls>>

\* case 'HOME_CHANGED'
onHomeChanged ==
    /\ AtEvent({"HOME_CHANGED"})
    /\ queue' = Tail(queue)
    /\ IF Truthy(event.home)
       THEN LET eventHome == setHome(event.home)
                updated == [i \in 1..Len(deviceMap) |->
                               <<deviceMap[i][1],
                                 [deviceMap[i][2] EXCEPT !.home = eventHome]>>]
            IN /\ deviceMap' = updated
               /\ dispatched' = dispatched \o
                      [i \in 1..Len(updated) |->
                          Dispatch(updated[i][1], <<updated[i][2], groups>>)]
               /\ lastHome' = eventHome
       ELSE UNCHANGED <<deviceMap, dispatched, lastHome>>
    /\ UNCHANGED <<pc, accessories, heap, groups, home, hmIPState, registerCalls,
                   unregisterCalls, wsOpen, shutdown, data, lastGroupEvent,
                   initResult, resolved, setHomeCalls>>

HandledTypes ==
    {"GROUP_CHANGED", "GROUP_ADDED", "GROUP_REMOVED", "DEVICE_REMOVED",
     "DEVICE_CHANGED", "DEVICE_ADDED", "HOME_CHANGED"}

\* default: leaving the callback instead of the switch
onUnhandled_Returns ==
    /\ data # NoMessage
    /\ queue # <<>>
    /\ event.pushEventType \notin HandledTypes
    /\ queue' = <<>>
    /\ UNCHANGED <<pc, accessories, heap, groups, home, deviceMap, hmIPState,
                   registerCalls, unregisterCalls, wsOpen, shutdown, data,
                   dispatched, lastGroupEvent,
                   initResult, resolved, lastHome, setHomeCalls>>

\* default: the event is logged and skipped
onUnhandled ==
    /\ data # NoMessage
    /\ queue # <<>>
    /\ event.pushEventType \notin HandledTypes
    /\ queue' = Tail(queue)
    /\ UNCHANGED <<pc, accessories, heap, groups, home, deviceMap, hmIPState,
                   registerCalls, unregisterCalls, wsOpen, shutdown, data,
                   dispatched, lastGroupEvent,
                   initResult, resolved, lastHome, setHomeCalls>>

\* the loop is over and the callback returns
onMessageReturn ==
    /\ data # NoMessage
    /\ queue = <<>>
    /\ data' = NoMessage
    /\ dispatched' = <<>>
    /\ UNCHANGED <<pc, accessories, heap, groups, home, deviceMap, hmIPState,
                   registerCalls, unregisterCalls, wsOpen, shutdown, queue,
                   lastGroupEvent,
                   initResult, resolved, lastHome, setHomeCalls>>

onEvent ==
    \/ onGroupChanged
    \/ onGroupRemoved
    \/ onDeviceRemoved
    \/ onDeviceChanged
    \/ onHomeChanged
    \/ onUnhandled

Next ==
    \/ \E uuid \in RestoredUUIDs : configureAccessory(RestoredAccessory(uuid))
    \/ didFinishLaunching
    \/ \E ok \in BOOLEAN : initResolved(ok)
    \/ \E snapshot \in Snapshots : discoverDevices(snapshot)
    \/ onShutdown
    \/ onMessage(HubMessages)
    \/ onEvent
    \/ onMessageReturn

Spec == Init /\ [][Next]_vars

(***************************************************************************)
(* The feed on its own: one snapshot with both devices bound, and messages *)
(* whose event keys are arbitrary (array indices in any order, other       *)
(* strings, repeated keys).                                                *)
(***************************************************************************)
FeedSnapshot ==
    [home |-> HubHome("1.0"),
     groups |-> <<<<"g1", Group("g1", "p0")>>, <<"g2", Group("g2", "q0")>>>>,
     devices |-> <<<<"d1", Device("d1", "FULL_FLUSH_SHUTTER")>>,
                   <<"d2", Device("d2", "HOME_CONTROL_ACCESS_POINT")>>>>]
\* the same snapshot with d1 of a type updateAccessory has no class for
FeedSnapshotUnsupported ==
    [FeedSnapshot EXCEPT
        !.devices = <<<<"d1", Device("d1", "PLUGABLE_SWITCH")>>,
                      <<"d2", Device("d2", "HOME_CONTROL_ACCESS_POINT")>>>>]
FeedSnapshots == {FeedSnapshot, FeedSnapshotUnsupported}
FeedEvents ==
    {Event("GROUP_ADDED", Group("g1", "p1"), Undefined, Undefined),
     Event("GROUP_REMOVED", Group("g1", "p1"), Undefined, Undefined),
     Event("DEVICE_REMOVED", Undefined, Device("d1", "FULL_FLUSH_SHUTTER"), Undefined),
     Event("DEVICE_CHANGED", Undefined, Device("d1", "FULL_FLUSH_SHUTTER"), Undefined),
     Event("HOME_CHANGED", Undefined, Undefined, HubHome("2.0")),
     Event("SECURITY_JOURNAL_CHANGED", Undefined, Undefined, Undefined),
     Event("DEVICE_CHANGED", Undefined, Undefined, Undefined)}
EventKeys == {"0", "1", "a"}
FeedMessages == SeqsUpTo(EventKeys \X FeedEvents, MaxMembers)

NextFeed ==
    \/ didFinishLaunching
    \/ \E ok \in BOOLEAN : initResolved(ok)
    \/ \E snapshot \in FeedSnapshots : discoverDevices(snapshot)
    \/ onShutdown
    \/ onMessage(FeedMessages)
    \/ onEvent
    \/ onMessageReturn

SpecFeed == Init /\ [][NextFeed]_vars

(***************************************************************************)
(* createAccessory on its own: after the restore, the same or different    *)
(* UUIDs are resolved one after another with different device contexts.    *)
(***************************************************************************)
\* createAccessory calls made on their own
MaxResolves == 2

ResolveUUIDs == RestoredUUIDs \cup {UuidGenerate("d2")}
ResolveContexts ==
    {Device("d1", "FULL_FLUSH_SHUTTER"), Device("d1", "PLUGABLE_SWITCH")}

resolve(uuid, deviceContext) ==
    /\ pc \in {"restoring", "resolving"}
    /\ Len(resolved) < MaxResolves
    /\ pc' = "resolving"
    /\ LET created == createAccessory(accessories, heap, uuid,
                                      deviceContext.label, deviceContext)
       IN /\ heap' = created.heap
          /\ resolved' = Append(resolved,
                 [uuid |-> uuid, deviceContext |-> deviceContext,
                  hmIPAccessory |-> created.hmIPAccessory])
    /\ UNCHANGED <<initResult, accessories, groups, home, deviceMap, hmIPState,
                   registerCalls, unregisterCalls, wsOpen, shutdown, data, queue,
                   dispatched, lastGroupEvent, lastHome, setHomeCalls>>

NextResolve ==
    \/ \E uuid \in RestoredUUIDs : configureAccessory(RestoredAccessory(uuid))
    \/ \E uuid \in ResolveUUIDs, deviceContext \in ResolveContexts :
          resolve(uuid, deviceContext)

SpecResolve == Init /\ [][NextResolve]_vars

(***************************************************************************)
(* setHome on its own: a home object with any field values, normalised     *)
(* already or not, is passed to setHome, and the same object is passed     *)
(* again.                                                                  *)
(***************************************************************************)
\* setHome calls made on their own on one home object
MaxSetHomeCalls == 2

Homes ==
    [id : {"home"}, currentAPVersion : {"1.0", "2.0", "3.0"},
     oem : {Absent, "eQ-3", "other"},
     modelType : {Absent, "HmIPHome", "HOME"},
     firmwareVersion : {Absent, "1.0", "0.9"}]

\* setHome(h) on a home object the hub sent
normalise(h) ==
    /\ pc = "restoring"
    /\ setHomeCalls = <<>>
    /\ pc' = "normalising"
    /\ setHomeCalls' = <<[before |-> h, after |-> setHome(h)]>>
    /\ UNCHANGED <<initResult, accessories, heap, groups, home, deviceMap,
                   hmIPState, registerCalls, unregisterCalls, wsOpen, shutdown,
                   data, queue, dispatched, lastGroupEvent, resolved, lastHome>>

\* setHome on the object the previous call left
normaliseAgain ==
    /\ pc = "normalising"
    /\ Len(setHomeCalls) < MaxSetHomeCalls
    /\ LET h == setHomeCalls[Len(setHomeCalls)].after
       IN setHomeCalls' = Append(setHomeCalls, [before |-> h, after |-> setHome(h)])
    /\ UNCHANGED <<pc, initResult, accessories, heap, groups, home, deviceMap,
                   hmIPState, registerCalls, unregisterCalls, wsOpen, shutdown,
                   data, queue, dispatched, lastGroupEvent, resolved, lastHome>>

NextHome ==
    \/ \E h \in Homes : normalise(h)
    \/ normaliseAgain

SpecHome == Init /\ [][NextHome]_vars

(***************************************************************************)
(* Properties                                                              *)
(***************************************************************************)
\* the events of the message being handled that the loop has already handled
handledEvents ==
    IF data = NoMessage THEN <<>>
    ELSE LET all == eventsOf(data[1])
         IN SubSeq(all, 1, Len(all) - Len(queue))

\* the UUID of the accessory a bound device holds
AccessoryUUID(hmIPDevice) == heap[hmIPDevice.accessory].UUID

\* the loop is at a device event of one of these types whose device is (not) bound
AtKnownDevice(types) ==
    /\ AtEvent(types)
    /\ Truthy(event.device)
    /\ Has(deviceMap, event.device.id)
AtUnknownDevice(types) ==
    /\ AtEvent(types)
    /\ Truthy(event.device)
    /\ ~Has(deviceMap, event.device.id)

\* C1: in every state after the snapshot pass and any notifications, deviceMap
\* holds at most one entry per device identity and no two entries carry the
\* same accessory UUID; every entry's accessory has the UUID derived from its
\* device identity.
C1_OneEntryPerIdentity ==
    /\ \A i, j \in 1..Len(deviceMap) :
          i # j => /\ deviceMap[i][1] # deviceMap[j][1]
                   /\ AccessoryUUID(deviceMap[i][2]) # AccessoryUUID(deviceMap[j][2])
    /\ \A i \in 1..Len(deviceMap) :
          AccessoryUUID(deviceMap[i][2]) = UuidGenerate(deviceMap[i][1])

\* two devices are bound, one of them to a restored accessory, and a
\* notification has been applied
C1_Witness ==
    /\ Len(deviceMap) = 2
    /\ Len(accessories) > 0
    /\ \E i \in 1..Len(deviceMap) : deviceMap[i][2].accessory = accessories[1]
    /\ lastGroupEvent["g1"] # Undefined

\* C2: handling a DEVICE_REMOVED event whose device is in deviceMap removes the
\* identity from deviceMap and from hmIPState.devices and makes exactly one
\* unregistration call, for the accessory bound to that identity.
C2_RemoveKnownDevice ==
    [][AtKnownDevice({"DEVICE_REMOVED"}) =>
          LET id == event.device.id
          IN /\ ~Has(deviceMap', id)
             /\ ~Has(hmIPState'.devices, id)
             /\ unregisterCalls' =
                   Append(unregisterCalls, Get(deviceMap, id).accessory)
             /\ heap'[Get(deviceMap, id).accessory].UUID = UuidGenerate(id)]_vars

\* d1 was bound, a DEVICE_REMOVED for it has been handled: it is in neither
\* store and its accessory is the one unregistered
C2_Witness ==
    /\ \E i \in 1..Len(handledEvents) :
          /\ handledEvents[i].pushEventType = "DEVICE_REMOVED"
          /\ handledEvents[i].device # Undefined
          /\ handledEvents[i].device.id = "d1"
    /\ Len(unregisterCalls) = 1
    /\ heap[unregisterCalls[1]].UUID = UuidGenerate("d1")
    /\ ~Has(deviceMap, "d1")
    /\ ~Has(hmIPState.devices, "d1")

\* C3: handling a DEVICE_REMOVED or DEVICE_CHANGED event whose device is not in
\* deviceMap leaves home, groups, the snapshot's home, groups and devices and
\* deviceMap unchanged and makes no registration and no unregistration call.
C3_UnknownDeviceNoEffect ==
    [][AtUnknownDevice({"DEVICE_REMOVED", "DEVICE_CHANGED"}) =>
          UNCHANGED <<home, groups, hmIPState, deviceMap, registerCalls,
                      unregisterCalls>>]_vars

\* a DEVICE_CHANGED event for d1 has been handled while d1, a device of the
\* snapshot, was not bound
C3_Witness ==
    /\ Len(handledEvents) > 0
    /\ handledEvents[1].pushEventType = "DEVICE_CHANGED"
    /\ handledEvents[1].device.id = "d1"
    /\ ~Has(deviceMap, "d1")
    /\ Has(hmIPState.devices, "d1")

\* the identities bound in deviceMap
BoundIds(m) == {m[i][1] : i \in 1..Len(m)}

\* C4: deviceMap entries are created only by the snapshot pass: no other step
\* adds an identity, and an identity leaves deviceMap only through the
\* handling of a DEVICE_REMOVED event for it.
C4_BoundOnlyBySnapshot ==
    [][/\ pc # "getCurrentState" => BoundIds(deviceMap') \subseteq BoundIds(deviceMap)
       /\ \A id \in BoundIds(deviceMap) \ BoundIds(deviceMap') :
             /\ AtEvent({"DEVICE_REMOVED"})
             /\ event.device.id = id]_vars

\* a DEVICE_ADDED event for d2, which the snapshot did not hold, has been
\* handled and d2 is not bound
C4_Witness ==
    /\ Len(handledEvents) > 0
    /\ handledEvents[1].pushEventType = "DEVICE_ADDED"
    /\ handledEvents[1].device.id = "d2"
    /\ ~Has(hmIPState.devices, "d2")
    /\ ~Has(deviceMap, "d2")
    /\ Len(unregisterCalls) = 0

\* C5: after the snapshot the stored home (this.home, the one passed to
\* updateDevice as the current home) is the snapshot's normalised home, and
\* after a HOME_CHANGED event with a home it is that home, normalised, its
\* firmware version the event's access-point version.
C5_StoredHomeIsLatest ==
    [][/\ (pc = "getCurrentState" /\ pc' = "subscribed") =>
             /\ home' = hmIPState'.home
             /\ home'.firmwareVersion = home'.currentAPVersion
       /\ (AtEvent({"HOME_CHANGED"}) /\ Truthy(event.home)) =>
             /\ home' = setHome(event.home)
             /\ home'.firmwareVersion = event.home.currentAPVersion]_vars

\* the dispatches the handling of the current event has added
NewDispatches == SubSeq(dispatched', Len(dispatched) + 1, Len(dispatched'))

\* C6: handling a HOME_CHANGED event with a home sets the home of every bound
\* device to the new home and dispatches exactly one update to each of them,
\* carrying the new home as the update's home (first argument) and the
\* current groups as its groups (third argument); no other dispatch is made.
C6_HomeChangedDispatch ==
    [][(AtEvent({"HOME_CHANGED"}) /\ Truthy(event.home)) =>
          LET newHome == setHome(event.home)
          IN /\ BoundIds(deviceMap') = BoundIds(deviceMap)
             /\ \A i \in 1..Len(deviceMap') : deviceMap'[i][2].home = newHome
             /\ Len(NewDispatches) = Len(deviceMap)
             /\ \A id \in BoundIds(deviceMap) :
                   Cardinality({k \in 1..Len(NewDispatches) :
                                   NewDispatches[k].target = id}) = 1
             /\ \A k \in 1..Len(NewDispatches) :
                   /\ NewDispatches[k].target \in BoundIds(deviceMap)
                   /\ NewDispatches[k].args[1] = newHome
                   /\ Len(NewDispatches[k].args) = 3
                   /\ NewDispatches[k].args[3] = groups]_vars

\* C7: when connector.init() reports failure, discoverDevices returns: the
\* snapshot, groups, home and deviceMap are never set, no accessory is
\* created, registered or unregistered, and the feed is never subscribed to,
\* then and in every later state.
C7_InitFailureAborts ==
    initResult = "failed" =>
        /\ pc = "aborted"
        /\ hmIPState = Undefined
        /\ groups = Undefined
        /\ home = Undefined
        /\ deviceMap = <<>>
        /\ Len(heap) = Len(accessories)
        /\ registerCalls = <<>>
        /\ unregisterCalls = <<>>
        /\ ~wsOpen
        /\ data = NoMessage

\* init failed in a platform with restored accessories, and the shutdown
\* callback has run since
C7_Witness ==
    /\ initResult = "failed"
    /\ Len(accessories) = 2
    /\ shutdown

\* C8: after any sequence of group events, groups (and the snapshot's groups)
\* map a group id to the payload of the latest GROUP_CHANGED / GROUP_ADDED
\* event for it, hold no entry for an id whose latest group event is
\* GROUP_REMOVED, and hold the snapshot's entry for an id without events.
C8_GroupStoreLastWriter ==
    pc = "subscribed" =>
        /\ hmIPState.groups = groups
        /\ \A i, j \in 1..Len(groups) : i # j => groups[i][1] # groups[j][1]
        /\ \A g \in GroupIds :
              LET last == lastGroupEvent[g]
              IN IF last = Undefined
                 THEN \E sg \in SnapshotGroups : Get(groups, g) = Get(sg, g)
                 ELSE IF last.pushEventType = "GROUP_REMOVED"
                 THEN ~Has(groups, g)
                 ELSE Get(groups, g) = last.group

\* the latest group event for g1 is a GROUP_CHANGED that replaced an earlier
\* payload, and g2 still has its snapshot entry
C8_Witness ==
    /\ pc = "subscribed"
    /\ lastGroupEvent["g1"] # Undefined
    /\ lastGroupEvent["g1"].pushEventType = "GROUP_CHANGED"
    /\ Get(groups, "g1") = Group("g1", "p2")
    /\ Get(groups, "g2") = Group("g2", "q0")
    /\ Len(handledEvents) > 0

\* the events of a message in the order of its text
TextOrder(text) == [i \in 1..Len(text) |-> text[i][2]]

\* a message arrives in this step
Arrives == data = NoMessage /\ data' # NoMessage

\* C9 as stated: the events of a message are applied in the order of the
\* message's text whatever its event keys are, one after another, and no other
\* message is handled in between.
C9_EnvelopeOrder ==
    [][/\ Arrives => queue' = TextOrder(data'[1])
       /\ (data # NoMessage /\ queue # <<>>) =>
             (data' = data /\ queue' = Tail(queue))]_vars

\* the keys of a message are distinct and already in property enumeration
\* order: array indices ascending, then the other keys
InEnumerationOrder(text) ==
    \A i, j \in 1..Len(text) :
        i < j => /\ text[i][1] # text[j][1]
                 /\ IsIndex(text[j][1]) =>
                       /\ IsIndex(text[i][1])
                       /\ IndexValue(text[i][1]) < IndexValue(text[j][1])

\* C9 amended: the events of a message whose keys are distinct and in
\* enumeration order are applied in the order of the message's text; the
\* events of any message are applied one after another, each completely
\* before the next, and no other message is handled in between.
C9_EnumerationOrder ==
    [][/\ (Arrives /\ InEnumerationOrder(data'[1])) => queue' = TextOrder(data'[1])
       /\ Arrives => /\ Len(queue') <= Len(data'[1])
                     /\ \A i \in 1..Len(queue') :
                           \E k \in 1..Len(data'[1]) : queue'[i] = data'[1][k][2]
       /\ (data # NoMessage /\ queue # <<>>) =>
             (data' = data /\ queue' = Tail(queue))]_vars

\* a message of two events with keys in enumeration order, an index and a
\* name, has been handled to its end
C9_Witness ==
    /\ data # NoMessage
    /\ Len(data[1]) = 2
    /\ InEnumerationOrder(data[1])
    /\ data[1][1][1] = "1"
    /\ data[1][2][1] = "a"
    /\ data[1][1][2] # data[1][2][2]
    /\ queue = <<>>
    /\ handledEvents = TextOrder(data[1])

\* C10 as stated: resolving one UUID twice with different device contexts
\* yields one accessory object holding the later context, restored or not.
C10_OneAccessoryPerUuid ==
    \A i, j \in 1..Len(resolved) :
        (i < j /\ resolved[i].uuid = resolved[j].uuid) =>
            /\ resolved[i].hmIPAccessory.accessory = resolved[j].hmIPAccessory.accessory
            /\ j = Len(resolved) =>
                  heap[resolved[j].hmIPAccessory.accessory].context
                      = resolved[j].deviceContext

\* the latest resolution of the UUID that resolution i was for
LatestFor(i) ==
    CHOOSE j \in i..Len(resolved) :
        /\ resolved[j].uuid = resolved[i].uuid
        /\ \A k \in (j + 1)..Len(resolved) : resolved[k].uuid # resolved[i].uuid

\* C10 amended: resolving a UUID restored into the cache yields the restored
\* accessory every time, holding the context of the latest resolution;
\* resolving a UUID that was not restored constructs a new accessory at every
\* resolution, each holding the context it was resolved with.
C10_ResolveRestoredOrNew ==
    \A i \in 1..Len(resolved) :
        LET r == resolved[i]
            cached == getAccessory(accessories, heap, r.uuid)
        IN /\ heap[r.hmIPAccessory.accessory].UUID = r.uuid
           /\ r.hmIPAccessory.isFromCache = (cached # 0)
           /\ IF cached # 0
              THEN /\ r.hmIPAccessory.accessory = cached
                   /\ heap[cached].context = resolved[LatestFor(i)].deviceContext
              ELSE /\ heap[r.hmIPAccessory.accessory].context = r.deviceContext
                   /\ \A j \in 1..Len(resolved) :
                         j # i => resolved[j].hmIPAccessory.accessory
                                     # r.hmIPAccessory.accessory

\* a restored UUID has been resolved twice with different contexts
C10_Witness ==
    /\ Len(resolved) = 2
    /\ resolved[1].uuid = resolved[2].uuid
    /\ resolved[1].deviceContext # resolved[2].deviceContext
    /\ resolved[1].hmIPAccessory.isFromCache
    /\ resolved[1].hmIPAccessory.accessory = resolved[2].hmIPAccessory.accessory
    /\ Len(accessories) = 2

\* the restored accessory with the UUID of this accessory, 0 for none
CachedFor(accessory) == getAccessory(accessories, heap, heap[accessory].UUID)

\* C11: over the restore, the snapshot pass and any notifications, no two
\* external registrations are for the same accessory UUID; an identity whose
\* accessory was restored is bound to that restored accessory, its register()
\* call is told so, and it is never passed to external registration.
C11_RegisteredAtMostOnce ==
    LET new == registerNew(registerCalls)
    IN /\ \A i, j \in 1..Len(new) :
             i # j => heap[new[i].accessory].UUID # heap[new[j].accessory].UUID
       /\ \A i \in 1..Len(new) : CachedFor(new[i].accessory) = 0
       /\ \A i \in 1..Len(registerCalls) :
             CachedFor(registerCalls[i].accessory) # 0 =>
                 /\ registerCalls[i].accessory = CachedFor(registerCalls[i].accessory)
                 /\ registerCalls[i].isFromCache
       /\ \A i \in 1..Len(deviceMap) :
             CachedFor(deviceMap[i][2].accessory) # 0 =>
                 deviceMap[i][2].accessory = CachedFor(deviceMap[i][2].accessory)

\* d1 was restored and d2 was not: both are bound, only d2 was passed to
\* external registration, and a notification has been handled since
C11_Witness ==
    /\ Len(registerCalls) = 2
    /\ Len(registerNew(registerCalls)) = 1
    /\ heap[registerNew(registerCalls)[1].accessory].UUID = UuidGenerate("d2")
    /\ Get(deviceMap, "d1") # Undefined
    /\ CachedFor(Get(deviceMap, "d1").accessory) = Get(deviceMap, "d1").accessory
    /\ Len(handledEvents) > 0

\* the identities of the devices whose type updateAccessory has a class for
SupportedIds(devices) ==
    {devices[i][1] : i \in {k \in 1..Len(devices) :
                                DeviceClass(devices[k][2].type) # Absent}}

\* the snapshot has been fetched and the snapshot pass runs in this step
SnapshotPass == pc = "getCurrentState" /\ pc' = "subscribed"

\* C12: after the snapshot pass deviceMap holds exactly the snapshot's devices
\* of a supported type, each once, bound to the class of its type and to the
\* accessory with its UUID, restored iff the cache held one, and register()
\* was called on exactly these accessories; a device of an unsupported type
\* is not bound, not registered, and the devices after it are still bound.
C12_SnapshotBindsSupported ==
    [][SnapshotPass =>
          LET devices == hmIPState'.devices
          IN /\ BoundIds(deviceMap') = SupportedIds(devices)
             /\ Len(deviceMap') = Cardinality(SupportedIds(devices))
             /\ Len(registerCalls') = Len(deviceMap')
             /\ \A i \in 1..Len(deviceMap') :
                   LET id == deviceMap'[i][1]
                       hmIPDevice == deviceMap'[i][2]
                   IN /\ hmIPDevice.class = DeviceClass(Get(devices, id).type)
                      /\ heap'[hmIPDevice.accessory].UUID = UuidGenerate(id)
                      /\ registerCalls'[i].accessory = hmIPDevice.accessory
                      /\ registerCalls'[i].isFromCache
                            = (\E k \in 1..Len(accessories) :
                                  accessories[k] = hmIPDevice.accessory)]_vars

\* the snapshot held d1 of an unsupported type followed by d2: only d2 is
\* bound and registered
C12_Witness ==
    /\ pc = "subscribed"
    /\ Len(hmIPState.devices) = 2
    /\ hmIPState.devices[1][2].type = "PLUGABLE_SWITCH"
    /\ BoundIds(deviceMap) = {"d2"}
    /\ Len(registerCalls) = 1
    /\ heap[registerCalls[1].accessory].UUID = UuidGenerate("d2")

\* a home as setHome leaves it
Normalised(h) ==
    /\ h # Undefined
    /\ h.oem = "eQ-3"
    /\ h.modelType = "HmIPHome"
    /\ h.firmwareVersion = h.currentAPVersion

\* C13: in every state the home held by every bound device is a normalised
\* home, and it is the latest one setHome was given: the snapshot's home from
\* the bind on, the event's home after a HOME_CHANGED.
C13_HandlesHoldNormalisedHome ==
    \A i \in 1..Len(deviceMap) :
        /\ Normalised(deviceMap[i][2].home)
        /\ deviceMap[i][2].home = lastHome

\* discoverDevices has returned or awaits nothing any more
DiscoveryFinished == pc \in {"subscribed", "aborted"}

\* C14: however the shutdown callback interleaves with discoverDevices' awaits,
\* once the shutdown callback has run and discoverDevices has finished the
\* feed subscription is closed and no message is being handled.
C14_ShutdownClosesFeed ==
    (shutdown /\ DiscoveryFinished) => (~wsOpen /\ data = NoMessage)

\* C15: handling a DEVICE_CHANGED or DEVICE_ADDED event whose device is in
\* deviceMap dispatches exactly one update, to the device bound to that
\* identity, carrying the latest stored home, the event's device payload and
\* the groups as they stand; the identities in deviceMap do not change.
C15_DeviceChangedDispatch ==
    [][AtKnownDevice({"DEVICE_CHANGED", "DEVICE_ADDED"}) =>
          /\ BoundIds(deviceMap') = BoundIds(deviceMap)
          /\ Len(NewDispatches) = 1
          /\ NewDispatches[1].target = event.device.id
          /\ Len(NewDispatches[1].args) = 3
          /\ NewDispatches[1].args[1] = lastHome
          /\ NewDispatches[1].args[2] = event.device
          /\ NewDispatches[1].args[3] = groups]_vars

\* C16: setHome leaves id and currentAPVersion (every field but oem,
\* modelType and firmwareVersion) as they were, and a second setHome on the
\* same home leaves oem, modelType and firmwareVersion as the first one set
\* them.
C16_SetHomeIdempotent ==
    \A i \in 1..Len(setHomeCalls) :
        LET call == setHomeCalls[i]
        IN /\ DOMAIN call.after = DOMAIN call.before
           /\ call.after.id = call.before.id
           /\ call.after.currentAPVersion = call.before.currentAPVersion
           /\ i > 1 =>
                 LET once == setHomeCalls[i - 1].after
                 IN /\ call.after.oem = once.oem
                    /\ call.after.modelType = once.modelType
                    /\ call.after.firmwareVersion = once.firmwareVersion

\* a home with a foreign oem, model and firmware version has been through
\* setHome twice
C16_Witness ==
    /\ Len(setHomeCalls) = 2
    /\ setHomeCalls[1].before.oem = "other"
    /\ setHomeCalls[1].before.modelType = "HOME"
    /\ setHomeCalls[1].before.firmwareVersion = "0.9"
    /\ setHomeCalls[1].before.currentAPVersion = "2.0"
    /\ setHomeCalls[2].after.firmwareVersion = "2.0"

\* the loop is at an event it cannot apply: one of a kind it does not handle,
\* one without the payload of its kind, or a device event for a device that
\* is not bound
Recoverable ==
    /\ data # NoMessage
    /\ queue # <<>>
    /\ \/ event.pushEventType \notin HandledTypes
       \/ /\ event.pushEventType \in {"GROUP_CHANGED", "GROUP_ADDED", "GROUP_REMOVED"}
          /\ ~Truthy(event.group)
       \/ /\ event.pushEventType \in {"DEVICE_REMOVED", "DEVICE_CHANGED", "DEVICE_ADDED"}
          /\ ~Truthy(event.device)
       \/ /\ event.pushEventType = "HOME_CHANGED"
          /\ ~Truthy(event.home)
       \/ AtUnknownDevice({"DEVICE_REMOVED", "DEVICE_CHANGED", "DEVICE_ADDED"})

\* C17: an event the loop cannot apply (unknown device, unhandled kind, no
\* payload) changes no store and ends neither the loop nor the subscription:
\* the loop goes on with the remaining events of the message, every event
\* still queued can be handled and the callback can return, after which the
\* next message is taken; and the snapshot pass ends with the subscription
\* established whatever the types of the snapshot's devices.
C17_RecoverableContinues ==
    /\ [][/\ Recoverable =>
                /\ queue' = Tail(queue)
                /\ UNCHANGED <<pc, data, wsOpen, groups, home, hmIPState,
                               deviceMap, heap, registerCalls, unregisterCalls>>
          /\ SnapshotPass => wsOpen']_vars
    /\ [](/\ (data # NoMessage /\ queue # <<>>) => ENABLED onEvent
          /\ (data # NoMessage /\ queue = <<>>) => ENABLED onMessageReturn
          /\ (wsOpen /\ data = NoMessage) => ENABLED onMessage(FeedMessages))

\* d1's type is unsupported and the feed is subscribed to; a message held a
\* DEVICE_CHANGED for d1, which is not bound, and then a GROUP_ADDED, which
\* has been applied
C17_Witness ==
    /\ hmIPState # Undefined
    /\ hmIPState.devices[1][2].type = "PLUGABLE_SWITCH"
    /\ wsOpen
    /\ Len(handledEvents) = 2
    /\ handledEvents[1].pushEventType = "DEVICE_CHANGED"
    /\ handledEvents[1].device # Undefined
    /\ handledEvents[1].device.id = "d1"
    /\ ~Has(deviceMap, "d1")
    /\ handledEvents[2].pushEventType = "GROUP_ADDED"
    /\ Get(groups, "g1") = Group("g1", "p1")

\* C18: the feed is subscribed to, and a message is handled, only once
\* discoverDevices has stored the snapshot and its groups and has taken every
\* snapshot device through updateAccessory: deviceMap then holds every
\* snapshot device of a supported type that has not been removed since.
C18_SubscribedAfterSnapshotPass ==
    (wsOpen \/ data # NoMessage) =>
        /\ pc = "subscribed"
        /\ hmIPState # Undefined
        /\ groups = hmIPState.groups
        /\ BoundIds(deviceMap) = SupportedIds(hmIPState.devices)

\* a message is being handled with both snapshot devices bound, and an update
\* has been dispatched to one of them
C18_Witness ==
    /\ data # NoMessage
    /\ wsOpen
    /\ Len(deviceMap) = 2
    /\ Len(hmIPState.devices) = 2
    /\ Len(dispatched) = 1
    /\ dispatched[1].target = "d2"

\* the identities of the devices of a snapshot object, none before there is one
TopologyIds(state) ==
    IF state = Undefined THEN {}
    ELSE {state.devices[i][1] : i \in 1..Len(state.devices)}

\* C19: in every state the identities bound in deviceMap are among the
\* identities of hmIPState.devices; an identity leaves hmIPState.devices only
\* when a DEVICE_REMOVED event for it is handled while it is bound, and it
\* leaves deviceMap in the same step.
C19_BoundWithinTopology ==
    /\ [](BoundIds(deviceMap) \subseteq TopologyIds(hmIPState))
    /\ [][\A id \in TopologyIds(hmIPState) \ TopologyIds(hmIPState') :
              /\ AtKnownDevice({"DEVICE_REMOVED"})
              /\ event.device.id = id
              /\ id \notin BoundIds(deviceMap')]_vars

\* d1 and d2 were bound, a DEVICE_REMOVED for d1 has been handled: d2 alone
\* is left, in deviceMap and in hmIPState.devices
C19_Witness ==
    /\ Len(registerCalls) = 2
    /\ Len(unregisterCalls) = 1
    /\ BoundIds(deviceMap) = {"d2"}
    /\ TopologyIds(hmIPState) = {"d2"}

\* C20: no two accessories of this.accessories have the same UUID, whatever
\* configureAccessory was called with; this.accessories changes only in a
\* configureAccessory call, which appends one accessory, and the UUIDs of its
\* accessories never change: the snapshot pass and the handling of any event
\* leave them as they are.
C20_CacheChangedOnlyByRestore ==
    [][/\ \A i, j \in 1..Len(accessories') :
             i # j => heap'[accessories'[i]].UUID # heap'[accessories'[j]].UUID
       /\ accessories' # accessories =>
             /\ pc = "restoring"
             /\ pc' = "restoring"
             /\ Len(accessories') = Len(accessories) + 1
             /\ SubSeq(accessories', 1, Len(accessories)) = accessories
       /\ \A i \in 1..Len(accessories) :
             heap'[accessories[i]].UUID = heap[accessories[i]].UUID]_vars

\* both UUIDs were restored; d1 was bound to its restored accessory and d2
\* to a new one; a DEVICE_REMOVED for d1 has unregistered the restored
\* accessory, which is still in this.accessories
C20_Witness ==
    /\ Len(accessories) = 2
    /\ Len(heap) = 3
    /\ Len(registerCalls) = 2
    /\ Len(unregisterCalls) = 1
    /\ \E i \in 1..Len(accessories) :
          /\ accessories[i] = unregisterCalls[1]
          /\ heap[accessories[i]].UUID = UuidGenerate("d1")
    /\ ~Has(deviceMap, "d1")

====
